---- MODULE Spec2Model ----
(***************************************************************************)
(* A model of caffe's layer factory (include/caffe/layer_factory.hpp,      *)
(* src/caffe/layer_factory.cpp) and dataset factory                        *)
(* (src/caffe/dataset_factory.cpp).                                        *)
(*                                                                         *)
(* Three specifications share the variables:                               *)
(*   Spec         the life of one process: static initialisation, then     *)
(*                main, where client code calls AddCreator, CreateLayer,   *)
(*                GetLayer and (in the _MSC_VER build) InitLayerFactory;   *)
(*   SpecEngine   one call of one of the six engine-selecting creators on  *)
(*                an input drawn from a bounded set;                       *)
(*   SpecDataset  calls of the two DatasetFactory overloads on inputs      *)
(*                drawn from a bounded set.                                *)
(* LOG(FATAL) and a failed CHECK abort the process: pc = "aborted", and    *)
(* no action is enabled afterwards.                                        *)
(***************************************************************************)
EXTENDS Integers, Sequences, FiniteSets, TLC

VARIABLES
  build,         \* the preprocessor symbols of the build: [msc, cudnn]
  pc,            \* where the process is
  registry,      \* Dtype -> the CreatorRegistry (std::map) of LayerRegistry<Dtype>
  regLog,        \* history: the (Dtype, type, creator) of every AddCreator call that returned
  localStatics,  \* the function-local static registerers of InitLayerFactory already constructed
  tuDone,        \* translation units whose static initialisers have run
  userRegs,      \* registrations made by client code so far
  lastOp,        \* the last call made and what it did
  ds             \* SpecDataset: the inputs and the results of the two overloads

vars == <<build, pc, registry, regLog, localStatics, tuDone, userRegs, lastOp, ds>>

(***************************************************************************)
(* Bounds.                                                                 *)
(***************************************************************************)
\* client registrations per run (static REGISTER_ macros and direct AddCreator calls)
MaxUserRegs == 2
\* pad, pad_h and pad_w of the pooling parameters range over 0..MaxPad
MaxPad == 1
\* top_size ranges over 0..MaxTops
MaxTops == 2

(***************************************************************************)
(* Values.                                                                 *)
(***************************************************************************)
Precisions == {"float", "double"}

\* The values of the <X>Parameter_Engine enumerations, and one value that is none of them.
Engines == {"DEFAULT", "CAFFE", "CUDNN", "UNRECOGNIZED"}

\* The parameter blocks of LayerParameter that carry an engine field.
Families ==
  {"convolution_param", "pooling_param", "relu_param", "sigmoid_param",
   "softmax_param", "tanh_param"}

FnCreator(name) == [kind |-> "fn", name |-> name]
ClassCreator(clsname) == [kind |-> "class", name |-> clsname]
\* a value-initialised function pointer (what std::map::operator[] inserts)
NullCreator == [kind |-> "null", name |-> ""]
\* "no creator was called"
NoCreator == [kind |-> "none", name |-> ""]

MakeParam(type, name, engines, pad, pad_h, pad_w, top_size) ==
  [type |-> type, name |-> name, engines |-> engines,
   pad |-> pad, pad_h |-> pad_h, pad_w |-> pad_w, top_size |-> top_size]

NoParam ==
  MakeParam("NONE", "", [f \in Families |-> "DEFAULT"], 0, 0, 0, 0)

\* new clsname<Dtype>(param)
NewLayer(clsname, Dtype, param) ==
  [class |-> clsname, dtype |-> Dtype, param |-> param]

NoLayer == NewLayer("NONE", "NONE", NoParam)

\* What a creator call does: it returns a layer, or LOG(FATAL) aborts the process.
Returned(layer, log) == [status |-> "ok", layer |-> layer, log |-> log]
Fatal(log) == [status |-> "fatal", layer |-> NoLayer, log |-> log]
\* a call through a null function pointer: undefined behaviour
Undefined == [status |-> "undefined", layer |-> NoLayer, log |-> <<>>]

UnknownEngine(param) ==
  <<"FATAL", "Layer ", param.name, " has unknown engine.">>

(***************************************************************************)
(* The engine-selecting creators of layer_factory.cpp.  USE_CUDNN is the   *)
(* preprocessor symbol: the #ifdef USE_CUDNN lines exist when it is TRUE.  *)
(***************************************************************************)
GetConvolutionLayer(Dtype, param, USE_CUDNN) ==
  LET declared == param.engines["convolution_param"]
      engine == IF declared = "DEFAULT"
                THEN (IF USE_CUDNN THEN "CUDNN" ELSE "CAFFE")
                ELSE declared
  IN  IF engine = "CAFFE"
      THEN Returned(NewLayer("ConvolutionLayer", Dtype, param), <<>>)
      ELSE IF USE_CUDNN /\ engine = "CUDNN"
      THEN Returned(NewLayer("CuDNNConvolutionLayer", Dtype, param), <<>>)
      ELSE Fatal(<<UnknownEngine(param)>>)

PoolingDowngradeLog ==
  <<"INFO", "CUDNN does not support padding or multiple tops. ",
    "Using Caffe's own pooling layer.">>

\* A faulty GetPoolingLayer: the test for padding forgets pad_h and pad_w.
GetPoolingLayerPadOnly(Dtype, param, USE_CUDNN) ==
  LET declared == param.engines["pooling_param"]
      engine == IF declared = "DEFAULT"
                THEN (IF USE_CUDNN THEN "CUDNN" ELSE "CAFFE")
                ELSE declared
  IN  IF engine = "CAFFE"
      THEN Returned(NewLayer("PoolingLayer", Dtype, param), <<>>)
      ELSE IF USE_CUDNN /\ engine = "CUDNN"
      THEN IF param.pad # 0 \/ param.top_size > 1
           THEN Returned(NewLayer("PoolingLayer", Dtype, param),
                         <<PoolingDowngradeLog>>)
           ELSE Returned(NewLayer("CuDNNPoolingLayer", Dtype, param), <<>>)
      ELSE Fatal(<<UnknownEngine(param)>>)

GetPoolingLayer(Dtype, param, USE_CUDNN) ==
  LET declared == param.engines["pooling_param"]
      engine == IF declared = "DEFAULT"
                THEN (IF USE_CUDNN THEN "CUDNN" ELSE "CAFFE")
                ELSE declared
  IN  IF engine = "CAFFE"
      THEN Returned(NewLayer("PoolingLayer", Dtype, param), <<>>)
      ELSE IF USE_CUDNN /\ engine = "CUDNN"
      THEN IF param.pad # 0 \/ param.pad_h # 0 \/ param.pad_w # 0
              \/ param.top_size > 1
           THEN Returned(NewLayer("PoolingLayer", Dtype, param),
                         <<PoolingDowngradeLog>>)
           ELSE Returned(NewLayer("CuDNNPoolingLayer", Dtype, param), <<>>)
      ELSE Fatal(<<UnknownEngine(param)>>)

\* A faulty GetReLULayer: with USE_CUDNN the backend compiled in wins over an
\* explicit CAFFE too.
GetReLULayerPreferCuDNN(Dtype, param, USE_CUDNN) ==
  LET declared == param.engines["relu_param"]
      engine == IF declared \in {"DEFAULT", "CAFFE"}
                THEN (IF USE_CUDNN THEN "CUDNN" ELSE "CAFFE")
                ELSE declared
  IN  IF engine = "CAFFE"
      THEN Returned(NewLayer("ReLULayer", Dtype, param), <<>>)
      ELSE IF USE_CUDNN /\ engine = "CUDNN"
      THEN Returned(NewLayer("CuDNNReLULayer", Dtype, param), <<>>)
      ELSE Fatal(<<UnknownEngine(param)>>)

GetReLULayer(Dtype, param, USE_CUDNN) ==
  LET declared == param.engines["relu_param"]
      engine == IF declared = "DEFAULT"
                THEN (IF USE_CUDNN THEN "CUDNN" ELSE "CAFFE")
                ELSE declared
  IN  IF engine = "CAFFE"
      THEN Returned(NewLayer("ReLULayer", Dtype, param), <<>>)
      ELSE IF USE_CUDNN /\ engine = "CUDNN"
      THEN Returned(NewLayer("CuDNNReLULayer", Dtype, param), <<>>)
      ELSE Fatal(<<UnknownEngine(param)>>)

GetSigmoidLayer(Dtype, param, USE_CUDNN) ==
  LET declared == param.engines["sigmoid_param"]
      engine == IF declared = "DEFAULT"
                THEN (IF USE_CUDNN THEN "CUDNN" ELSE "CAFFE")
                ELSE declared
  IN  IF engine = "CAFFE"
      THEN Returned(NewLayer("SigmoidLayer", Dtype, param), <<>>)
      ELSE IF USE_CUDNN /\ engine = "CUDNN"
      THEN Returned(NewLayer("CuDNNSigmoidLayer", Dtype, param), <<>>)
      ELSE Fatal(<<UnknownEngine(param)>>)

GetSoftmaxLayer(Dtype, param, USE_CUDNN) ==
  LET declared == param.engines["softmax_param"]
      engine == IF declared = "DEFAULT"
                THEN (IF USE_CUDNN THEN "CUDNN" ELSE "CAFFE")
                ELSE declared
  IN  IF engine = "CAFFE"
      THEN Returned(NewLayer("SoftmaxLayer", Dtype, param), <<>>)
      ELSE IF USE_CUDNN /\ engine = "CUDNN"
      THEN Returned(NewLayer("CuDNNSoftmaxLayer", Dtype, param), <<>>)
      ELSE Fatal(<<UnknownEngine(param)>>)

\* A faulty GetTanHLayer: an engine it cannot serve falls back to the Caffe layer.
GetTanHLayerFallback(Dtype, param, USE_CUDNN) ==
  LET declared == param.engines["tanh_param"]
      engine == IF declared = "DEFAULT"
                THEN (IF USE_CUDNN THEN "CUDNN" ELSE "CAFFE")
                ELSE declared
  IN  IF engine = "CAFFE"
      THEN Returned(NewLayer("TanHLayer", Dtype, param), <<>>)
      ELSE IF USE_CUDNN /\ engine = "CUDNN"
      THEN Returned(NewLayer("CuDNNTanHLayer", Dtype, param), <<>>)
      ELSE Returned(NewLayer("TanHLayer", Dtype, param), <<>>)

GetTanHLayer(Dtype, param, USE_CUDNN) ==
  LET declared == param.engines["tanh_param"]
      engine == IF declared = "DEFAULT"
                THEN (IF USE_CUDNN THEN "CUDNN" ELSE "CAFFE")
                ELSE declared
  IN  IF engine = "CAFFE"
      THEN Returned(NewLayer("TanHLayer", Dtype, param), <<>>)
      ELSE IF USE_CUDNN /\ engine = "CUDNN"
      THEN Returned(NewLayer("CuDNNTanHLayer", Dtype, param), <<>>)
      ELSE Fatal(<<UnknownEngine(param)>>)

\* Creator_<clsname>, generated by REGISTER_LAYER_CLASS: new clsname<Dtype>(param).
Creator_Class(clsname, Dtype, param) ==
  Returned(NewLayer(clsname, Dtype, param), <<>>)

\* The call creator(param) through the stored function pointer.
CallCreator(creator, Dtype, param, USE_CUDNN) ==
  CASE creator.kind = "class" -> Creator_Class(creator.name, Dtype, param)
    [] creator = FnCreator("GetConvolutionLayer") ->
         GetConvolutionLayer(Dtype, param, USE_CUDNN)
    [] creator = FnCreator("GetPoolingLayer") ->
         GetPoolingLayer(Dtype, param, USE_CUDNN)
    [] creator = FnCreator("GetReLULayer") ->
         GetReLULayer(Dtype, param, USE_CUDNN)
    [] creator = FnCreator("GetSigmoidLayer") ->
         GetSigmoidLayer(Dtype, param, USE_CUDNN)
    [] creator = FnCreator("GetSoftmaxLayer") ->
         GetSoftmaxLayer(Dtype, param, USE_CUDNN)
    [] creator = FnCreator("GetTanHLayer") ->
         GetTanHLayer(Dtype, param, USE_CUDNN)
    [] OTHER -> Undefined

(***************************************************************************)
(* LayerRegistry<Dtype> (layer_factory.hpp).  A CreatorRegistry is a        *)
(* std::map: a function whose DOMAIN is the set of keys it holds.          *)
(***************************************************************************)
EmptyMap == <<>>

\* registry.count(type)
MapCount(m, k) == IF k \in DOMAIN m THEN 1 ELSE 0

\* registry[type] = creator
MapAssign(m, k, v) == (k :> v) @@ m

\* registry[type] read: operator[] inserts a value-initialised entry for a missing key
MapIndex(m, k) ==
  IF k \in DOMAIN m
  THEN [map |-> m, value |-> m[k]]
  ELSE [map |-> MapAssign(m, k, NullCreator), value |-> NullCreator]

\* A faulty Registry(): one g_registry_ shared by every instantiation.
RegistryShared(Dtype) == "float"

\* Registry(): the function-local static g_registry_ of the instantiation
\* LayerRegistry<Dtype>; each instantiation has its own.
Registry(Dtype) == Dtype

AlreadyRegistered(type) ==
  <<"FATAL", "Check failed: registry.count(type) == 0", "Layer type ", type,
    " already registered.">>

\* A faulty AddCreator: no CHECK_EQ, a second registration overwrites the first.
AddCreatorOverwrite(reg, Dtype, type, creator) ==
  LET r == Registry(Dtype)
  IN  [registry |-> [reg EXCEPT ![r] = MapAssign(reg[r], type, creator)],
       fatal |-> FALSE, log |-> <<>>]

\* LayerRegistry<Dtype>::AddCreator(type, creator) on the registries reg
AddCreator(reg, Dtype, type, creator) ==
  LET r == Registry(Dtype)
  IN  IF MapCount(reg[r], type) # 0
      THEN [registry |-> reg, fatal |-> TRUE, log |-> <<AlreadyRegistered(type)>>]
      ELSE [registry |-> [reg EXCEPT ![r] = MapAssign(reg[r], type, creator)],
            fatal |-> FALSE, log |-> <<>>]

NotRegistered == <<"FATAL", "Check failed: registry.count(type) == 1">>

\* A faulty CreateLayer: a type that is not registered gives a null layer.
CreateLayerOrNull(reg, Dtype, param, USE_CUDNN) ==
  LET creating == <<"INFO", "Creating layer ", param.name>>
      type == param.type
      r == Registry(Dtype)
  IN  IF MapCount(reg[r], type) # 1
      THEN [registry |-> reg, status |-> "ok", invoked |-> NoCreator,
            layer |-> NoLayer, log |-> <<creating>>]
      ELSE LET ix == MapIndex(reg[r], type)
               res == CallCreator(ix.value, Dtype, param, USE_CUDNN)
           IN  [registry |-> [reg EXCEPT ![r] = ix.map], status |-> res.status,
                invoked |-> ix.value, layer |-> res.layer,
                log |-> <<creating>> \o res.log]

\* A faulty CreateLayer: registry[type] is read before the CHECK_EQ, so that a
\* missing type is inserted with a null creator, which is then called.
CreateLayerIndexFirst(reg, Dtype, param, USE_CUDNN) ==
  LET creating == <<"INFO", "Creating layer ", param.name>>
      type == param.type
      r == Registry(Dtype)
      ix == MapIndex(reg[r], type)
  IN  IF MapCount(ix.map, type) # 1
      THEN [registry |-> [reg EXCEPT ![r] = ix.map], status |-> "fatal",
            invoked |-> NoCreator, layer |-> NoLayer,
            log |-> <<creating, NotRegistered>>]
      ELSE LET res == CallCreator(ix.value, Dtype, param, USE_CUDNN)
           IN  [registry |-> [reg EXCEPT ![r] = ix.map], status |-> res.status,
                invoked |-> ix.value, layer |-> res.layer,
                log |-> <<creating>> \o res.log]

\* LayerRegistry<Dtype>::CreateLayer(param) on the registries reg
CreateLayer(reg, Dtype, param, USE_CUDNN) ==
  LET creating == <<"INFO", "Creating layer ", param.name>>
      type == param.type
      r == Registry(Dtype)
  IN  IF MapCount(reg[r], type) # 1
      THEN [registry |-> reg, status |-> "fatal", invoked |-> NoCreator,
            layer |-> NoLayer, log |-> <<creating, NotRegistered>>]
      ELSE LET ix == MapIndex(reg[r], type)
               res == CallCreator(ix.value, Dtype, param, USE_CUDNN)
           IN  [registry |-> [reg EXCEPT ![r] = ix.map], status |-> res.status,
                invoked |-> ix.value, layer |-> res.layer,
                log |-> <<creating>> \o res.log]

\* GetLayer<Dtype>(param): the backward-compatible wrapper
GetLayer(reg, Dtype, param, USE_CUDNN) == CreateLayer(reg, Dtype, param, USE_CUDNN)

\* LayerRegisterer<Dtype>(type, creator): its constructor is one AddCreator call
LayerRegisterer(reg, Dtype, type, creator) == AddCreator(reg, Dtype, type, creator)

\* One static registerer object: g_creator_f_<type> or g_creator_d_<type>.
Registerer(Dtype, type, creator) ==
  [prec |-> Dtype, type |-> type, creator |-> creator]

\* REGISTER_LAYER_CREATOR_MSC_VER(type, creator), and REGISTER_LAYER_CREATOR(type,
\* creator) without _MSC_VER: the float registerer, then the double one.
RegistererPair(type, creator) ==
  <<Registerer("float", type, creator), Registerer("double", type, creator)>>

\* REGISTER_LAYER_CREATOR(type, creator): with _MSC_VER it expands to ";"
REGISTER_LAYER_CREATOR(MSC_VER, type, creator) ==
  IF MSC_VER THEN <<>> ELSE RegistererPair(type, creator)

\* REGISTER_LAYER_CLASS(type, clsname): with _MSC_VER it expands to ";"
REGISTER_LAYER_CLASS(MSC_VER, type, clsname) ==
  REGISTER_LAYER_CREATOR(MSC_VER, type, ClassCreator(clsname))

\* Constructing one registerer, unless an earlier one aborted the process.
ConstructRegisterer(run, r) ==
  IF run.fatal THEN run
  ELSE LET a == LayerRegisterer(run.registry, r.prec, r.type, r.creator)
       IN  IF a.fatal
           THEN [registry |-> a.registry, fatal |-> TRUE, done |-> run.done,
                 log |-> a.log]
           ELSE [registry |-> a.registry, fatal |-> FALSE,
                 done |-> Append(run.done, r), log |-> <<>>]

\* Constructing the registerers seq[lo..hi] in order (the range is halved to keep
\* the evaluation shallow; the order of construction is that of seq).
RECURSIVE RunRange(_, _, _, _)
RunRange(run, seq, lo, hi) ==
  IF lo > hi THEN run
  ELSE IF lo = hi THEN ConstructRegisterer(run, seq[lo])
  ELSE LET mid == (lo + hi) \div 2
           left == RunRange(run, seq, lo, mid)
       IN  IF left.fatal THEN left ELSE RunRange(left, seq, mid + 1, hi)

\* Constructing registerers in order; the first failed CHECK aborts the process.
RunRegisterers(reg, seq) ==
  RunRange([registry |-> reg, fatal |-> FALSE, done |-> <<>>, log |-> <<>>],
           seq, 1, Len(seq))

\* The (type, creator) pairs registered at namespace scope in layer_factory.cpp,
\* in declaration order.
EngineCreatorTable ==
  << <<"CONVOLUTION", "GetConvolutionLayer">>,
     <<"POOLING", "GetPoolingLayer">>,
     <<"RELU", "GetReLULayer">>,
     <<"SIGMOID", "GetSigmoidLayer">>,
     <<"SOFTMAX", "GetSoftmaxLayer">>,
     <<"TANH", "GetTanHLayer">> >>

\* The (type, clsname) pairs of REGISTER_LAYER_CREATOR_CLASS_MSC_VER in
\* InitLayerFactory, in order.
ClassTable ==
  << <<"ABSVAL", "AbsValLayer">>,
     <<"ACCURACY", "AccuracyLayer">>,
     <<"ARGMAX", "ArgMaxLayer">>,
     <<"BNLL", "BNLLLayer">>,
     <<"CONCAT", "ConcatLayer">>,
     <<"CONTRASTIVE_LOSS", "ContrastiveLossLayer">>,
     <<"DATA", "DataLayer">>,
     <<"DROPOUT", "DropoutLayer">>,
     <<"DUMMY_DATA", "DummyDataLayer">>,
     <<"ELTWISE", "EltwiseLayer">>,
     <<"EUCLIDEAN_LOSS", "EuclideanLossLayer">>,
     <<"EXP", "ExpLayer">>,
     <<"FLATTEN", "FlattenLayer">>,
     <<"HINGE_LOSS", "HingeLossLayer">>,
     <<"IM2COL", "Im2colLayer">>,
     <<"IMAGE_DATA", "ImageDataLayer">>,
     <<"INFOGAIN_LOSS", "InfogainLossLayer">>,
     <<"INNER_PRODUCT", "InnerProductLayer">>,
     <<"LRN", "LRNLayer">>,
     <<"MEMORY_DATA", "MemoryDataLayer">>,
     <<"MULTINOMIAL_LOGISTIC_LOSS", "MultinomialLogisticLossLayer">>,
     <<"MVN", "MVNLayer">>,
     <<"POWER", "PowerLayer">>,
     <<"SIGMOID_CROSS_ENTROPY_LOSS", "SigmoidCrossEntropyLossLayer">>,
     <<"SILENCE", "SilenceLayer">>,
     <<"SLICE", "SliceLayer">>,
     <<"SOFTMAX_LOSS", "SoftmaxWithLossLayer">>,
     <<"SPLIT", "SplitLayer">>,
     <<"THRESHOLD", "ThresholdLayer">>,
     <<"WINDOW_DATA", "WindowDataLayer">> >>

\* The registerers a sequence of (type, creator) pairs expands to: for each
\* pair in order, the float registerer, then the double one.
Expand(pairs) ==
  [i \in 1..(2 * Len(pairs)) |->
     RegistererPair(pairs[(i + 1) \div 2][1], pairs[(i + 1) \div 2][2])[2 - (i % 2)]]

\* A faulty layer_factory.cpp: the REGISTER_LAYER_CREATOR line of TANH is missing.
LayerFactoryStaticsNoTanH(MSC_VER) ==
  REGISTER_LAYER_CREATOR(MSC_VER, "CONVOLUTION", FnCreator("GetConvolutionLayer"))
  \o REGISTER_LAYER_CREATOR(MSC_VER, "POOLING", FnCreator("GetPoolingLayer"))
  \o REGISTER_LAYER_CREATOR(MSC_VER, "RELU", FnCreator("GetReLULayer"))
  \o REGISTER_LAYER_CREATOR(MSC_VER, "SIGMOID", FnCreator("GetSigmoidLayer"))
  \o REGISTER_LAYER_CREATOR(MSC_VER, "SOFTMAX", FnCreator("GetSoftmaxLayer"))

\* The namespace-scope static registerers of layer_factory.cpp: the six
\* REGISTER_LAYER_CREATOR lines.
LayerFactoryStatics(MSC_VER) ==
  REGISTER_LAYER_CREATOR(MSC_VER, "CONVOLUTION", FnCreator("GetConvolutionLayer"))
  \o REGISTER_LAYER_CREATOR(MSC_VER, "POOLING", FnCreator("GetPoolingLayer"))
  \o REGISTER_LAYER_CREATOR(MSC_VER, "RELU", FnCreator("GetReLULayer"))
  \o REGISTER_LAYER_CREATOR(MSC_VER, "SIGMOID", FnCreator("GetSigmoidLayer"))
  \o REGISTER_LAYER_CREATOR(MSC_VER, "SOFTMAX", FnCreator("GetSoftmaxLayer"))
  \o REGISTER_LAYER_CREATOR(MSC_VER, "TANH", FnCreator("GetTanHLayer"))

\* The function-local static registerers of InitLayerFactory, in order.
InitLayerFactoryStatics ==
  Expand([i \in 1..Len(EngineCreatorTable) |->
            <<EngineCreatorTable[i][1], FnCreator(EngineCreatorTable[i][2])>>])
  \o Expand([i \in 1..Len(ClassTable) |->
            <<ClassTable[i][1], ClassCreator(ClassTable[i][2])>>])

\* Faulty registerers in InitLayerFactory: automatic objects, constructed on
\* every call.
LocalStaticAlwaysPending(constructed, r) == TRUE

\* A function-local static is constructed the first time control passes through
\* its declaration, and never again.
LocalStaticPending(constructed, r) == <<r.prec, r.type>> \notin constructed

\* InitLayerFactory() on the registries reg, with the local statics constructed so far
InitLayerFactory(reg, constructed) ==
  LET pending == SelectSeq(InitLayerFactoryStatics,
                           LAMBDA r : LocalStaticPending(constructed, r))
      run == RunRegisterers(reg, pending)
  IN  [registry |-> run.registry, fatal |-> run.fatal, done |-> run.done,
       constructed |->
         constructed \cup {<<run.done[i].prec, run.done[i].type>> : i \in DOMAIN run.done},
       log |-> run.log]

(***************************************************************************)
(* The process: static initialisation, then main.                          *)
(***************************************************************************)
Builds == [msc : BOOLEAN, cudnn : BOOLEAN]

\* ret is what InitLayerFactory returned.
MakeOp(op, prec, type, creator, param, invoked, status, layer, log, ret) ==
  [op |-> op, prec |-> prec, type |-> type, creator |-> creator, param |-> param,
   invoked |-> invoked, status |-> status, layer |-> layer, log |-> log,
   ret |-> ret]

NoOp ==
  MakeOp("none", "NONE", "NONE", NoCreator, NoParam, NoCreator, "ok", NoLayer,
         <<>>, FALSE)

NoDs ==
  [kv |-> "NONE", name |-> "", dbtype |-> "NONE",
   byName |-> [status |-> "none", class |-> "NONE", kv |-> "NONE", log |-> <<>>],
   byType |-> [status |-> "none", class |-> "NONE", kv |-> "NONE", log |-> <<>>]]

\* The registerers of a run as history entries.
Registered(done) == {done[i] : i \in DOMAIN done}

\* Layer types client code registers, and the creators it registers them with.
ClientTypes == {"CONVOLUTION", "AWESOME"}
ClientStaticCreators == {ClassCreator("MyAwesomeLayer")}
ClientCreators == {FnCreator("GetPoolingLayer")}

\* The LayerParameter messages client code passes to CreateLayer and GetLayer.
LifecycleTypes == {"CONVOLUTION", "POOLING", "WINDOW_DATA", "AWESOME"}
LifecycleParams ==
  {MakeParam(t, "my_" \o t, [f \in Families |-> e], 0, 0, 0, 1) :
     t \in LifecycleTypes, e \in Engines}

Init ==
  /\ build \in Builds
  /\ pc = "static_init"
  /\ registry = [P \in Precisions |-> EmptyMap]
  /\ regLog = {}
  /\ localStatics = {}
  /\ tuDone = {}
  /\ userRegs = 0
  /\ lastOp = NoOp
  /\ ds = NoDs

\* The static initialisers of layer_factory.cpp run.
StaticInitLayerFactory ==
  /\ pc = "static_init"
  /\ "layer_factory.cpp" \notin tuDone
  /\ LET run == RunRegisterers(registry, LayerFactoryStatics(build.msc))
     IN  /\ registry' = run.registry
         /\ regLog' = regLog \cup Registered(run.done)
         /\ pc' = IF run.fatal THEN "aborted" ELSE pc
         /\ lastOp' = MakeOp("StaticInitLayerFactory", "NONE", "NONE", NoCreator,
                             NoParam, NoCreator,
                             IF run.fatal THEN "fatal" ELSE "ok", NoLayer,
                             run.log, FALSE)
  /\ tuDone' = tuDone \cup {"layer_factory.cpp"}
  /\ UNCHANGED <<build, localStatics, userRegs, ds>>

\* The static initialisers of a client translation unit that holds
\* REGISTER_LAYER_CREATOR(type, creator) or REGISTER_LAYER_CLASS(type, clsname) run.
StaticInitClient(type, creator) ==
  /\ pc = "static_init"
  /\ userRegs < MaxUserRegs
  /\ LET run == RunRegisterers(registry,
                               REGISTER_LAYER_CREATOR(build.msc, type, creator))
     IN  /\ registry' = run.registry
         /\ regLog' = regLog \cup Registered(run.done)
         /\ pc' = IF run.fatal THEN "aborted" ELSE pc
         /\ lastOp' = MakeOp("StaticInitClient", "NONE", type, creator, NoParam,
                             NoCreator, IF run.fatal THEN "fatal" ELSE "ok",
                             NoLayer, run.log, FALSE)
  /\ userRegs' = userRegs + 1
  /\ UNCHANGED <<build, localStatics, tuDone, ds>>

\* Static initialisation is over: main starts.
EnterMain ==
  /\ pc = "static_init"
  /\ "layer_factory.cpp" \in tuDone
  /\ pc' = "main"
  /\ lastOp' = MakeOp("main", "NONE", "NONE", NoCreator, NoParam, NoCreator, "ok",
                      NoLayer, <<>>, FALSE)
  /\ UNCHANGED <<build, registry, regLog, localStatics, tuDone, userRegs, ds>>

\* Client code calls LayerRegistry<Dtype>::AddCreator(type, creator).
CallAddCreator(Dtype, type, creator) ==
  /\ pc = "main"
  /\ userRegs < MaxUserRegs
  /\ LET a == AddCreator(registry, Dtype, type, creator)
     IN  /\ registry' = a.registry
         /\ regLog' = IF a.fatal THEN regLog
                      ELSE regLog \cup {Registerer(Dtype, type, creator)}
         /\ pc' = IF a.fatal THEN "aborted" ELSE pc
         /\ lastOp' = MakeOp("AddCreator", Dtype, type, creator, NoParam, NoCreator,
                             IF a.fatal THEN "fatal" ELSE "ok", NoLayer, a.log,
                             FALSE)
  /\ userRegs' = userRegs + 1
  /\ UNCHANGED <<build, localStatics, tuDone, ds>>

\* Client code calls LayerRegistry<Dtype>::CreateLayer(param).
CallCreateLayer(Dtype, param) ==
  /\ pc = "main"
  /\ LET c == CreateLayer(registry, Dtype, param, build.cudnn)
     IN  /\ registry' = c.registry
         /\ pc' = IF c.status = "ok" THEN pc ELSE "aborted"
         /\ lastOp' = MakeOp("CreateLayer", Dtype, param.type, NoCreator, param,
                             c.invoked, c.status, c.layer, c.log, FALSE)
  /\ UNCHANGED <<build, regLog, localStatics, tuDone, userRegs, ds>>

\* Client code calls GetLayer<Dtype>(param).
CallGetLayer(Dtype, param) ==
  /\ pc = "main"
  /\ LET c == GetLayer(registry, Dtype, param, build.cudnn)
     IN  /\ registry' = c.registry
         /\ pc' = IF c.status = "ok" THEN pc ELSE "aborted"
         /\ lastOp' = MakeOp("GetLayer", Dtype, param.type, NoCreator, param,
                             c.invoked, c.status, c.layer, c.log, FALSE)
  /\ UNCHANGED <<build, regLog, localStatics, tuDone, userRegs, ds>>

\* Client code calls InitLayerFactory().  It is declared with _MSC_VER only (the
\* header's #else branch), as are the _MSC_VER macros its definition uses.
CallInitLayerFactory ==
  /\ pc = "main"
  /\ build.msc
  /\ LET i == InitLayerFactory(registry, localStatics)
     IN  /\ registry' = i.registry
         /\ regLog' = regLog \cup Registered(i.done)
         /\ localStatics' = i.constructed
         /\ pc' = IF i.fatal THEN "aborted" ELSE pc
         /\ lastOp' = MakeOp(IF localStatics = {} THEN "InitLayerFactory"
                             ELSE "InitLayerFactoryAgain",
                             "NONE", "NONE", NoCreator, NoParam,
                             NoCreator, IF i.fatal THEN "fatal" ELSE "ok", NoLayer,
                             i.log, ~i.fatal)
  /\ UNCHANGED <<build, tuDone, userRegs, ds>>

Next ==
  \/ StaticInitLayerFactory
  \/ \E t \in ClientTypes, c \in ClientStaticCreators : StaticInitClient(t, c)
  \/ EnterMain
  \/ \E P \in Precisions, t \in ClientTypes, c \in ClientCreators :
       CallAddCreator(P, t, c)
  \/ \E P \in Precisions, p \in LifecycleParams : CallCreateLayer(P, p)
  \/ \E P \in Precisions, p \in LifecycleParams : CallGetLayer(P, p)
  \/ CallInitLayerFactory

Spec == Init /\ [][Next]_vars

(***************************************************************************)
(* SpecEngine: one call of an engine-selecting creator.                     *)
(***************************************************************************)
EngineCreators ==
  {FnCreator(EngineCreatorTable[i][2]) : i \in DOMAIN EngineCreatorTable}

\* The engine fields of a message: one block declares e, the others declare o.
EngineFields ==
  {[f \in Families |-> IF f = g THEN e ELSE o] :
     g \in Families, e \in Engines, o \in {"CAFFE", "UNRECOGNIZED"}}

EngineParams ==
  {MakeParam("ANY", "layer1", engines, pad, pad_h, pad_w, top_size) :
     engines \in EngineFields, pad \in 0..MaxPad, pad_h \in 0..MaxPad,
     pad_w \in 0..MaxPad, top_size \in 0..MaxTops}

InitEngine ==
  /\ build \in {b \in Builds : ~b.msc}
  /\ pc = "engine_input"
  /\ registry = [P \in Precisions |-> EmptyMap]
  /\ regLog = {}
  /\ localStatics = {}
  /\ tuDone = {}
  /\ userRegs = 0
  /\ \E P \in Precisions, c \in EngineCreators, p \in EngineParams :
       lastOp = MakeOp("input", P, p.type, c, p, NoCreator, "pending", NoLayer,
                       <<>>, FALSE)
  /\ ds = NoDs

\* The creator lastOp.creator is called on lastOp.param.
CallEngineCreator ==
  /\ pc = "engine_input"
  /\ LET r == CallCreator(lastOp.creator, lastOp.prec, lastOp.param, build.cudnn)
     IN  /\ lastOp' = MakeOp("creator", lastOp.prec, lastOp.type, lastOp.creator,
                             lastOp.param, lastOp.creator, r.status, r.layer,
                             r.log, FALSE)
         /\ pc' = IF r.status = "ok" THEN "returned" ELSE "aborted"
  /\ UNCHANGED <<build, registry, regLog, localStatics, tuDone, userRegs, ds>>

NextEngine == CallEngineCreator

SpecEngine == InitEngine /\ [][NextEngine]_vars

(***************************************************************************)
(* DatasetFactory (dataset_factory.cpp) and SpecDataset.                    *)
(***************************************************************************)
DsPending == [status |-> "pending", class |-> "NONE", kv |-> "NONE", log |-> <<>>]
\* shared_ptr<Dataset<K, V> >(new cls<K, V>())
DsNew(cls, KV) == [status |-> "ok", class |-> cls, kv |-> KV, log |-> <<>>]
\* return NULL: an empty shared_ptr
DsNull(KV) == [status |-> "ok", class |-> "NULL", kv |-> KV, log |-> <<>>]
DsFatal(value) ==
  [status |-> "fatal", class |-> "NONE", kv |-> "NONE",
   log |-> <<"FATAL", "Unknown dataset type ", value>>]

\* DatasetFactory<K, V>(const DataParameter_DB& type)
DatasetFactoryByType(KV, type, MSC_VER) ==
  CASE type = "DataParameter_DB_LEVELDB" -> DsNew("LeveldbDataset", KV)
    [] type = "DataParameter_DB_LMDB" ->
         IF MSC_VER THEN DsNull(KV) ELSE DsNew("LmdbDataset", KV)
    [] OTHER -> DsFatal(type)

\* A faulty DatasetFactory(const string&): the aliases match in any case.
DatasetFactoryByNameAnyCase(KV, type, MSC_VER) ==
  IF type \in {"leveldb", "LevelDB"}
  THEN DatasetFactoryByType(KV, "DataParameter_DB_LEVELDB", MSC_VER)
  ELSE IF type \in {"lmdb", "LMDB"}
  THEN IF MSC_VER THEN DsNull(KV)
       ELSE DatasetFactoryByType(KV, "DataParameter_DB_LMDB", MSC_VER)
  ELSE DsFatal(type)

\* DatasetFactory<K, V>(const string& type)
DatasetFactoryByName(KV, type, MSC_VER) ==
  IF "leveldb" = type
  THEN DatasetFactoryByType(KV, "DataParameter_DB_LEVELDB", MSC_VER)
  ELSE IF "lmdb" = type
  THEN IF MSC_VER THEN DsNull(KV)
       ELSE DatasetFactoryByType(KV, "DataParameter_DB_LMDB", MSC_VER)
  ELSE DsFatal(type)

\* REGISTER_DATASET: the three instantiations
DatasetInstantiations ==
  {"<string, string>", "<string, vector<char> >", "<string, Datum>"}

\* Inputs: the two aliases, near misses of them, and other strings; the two
\* enumerators and two values that are neither.
DatasetNames == {"leveldb", "lmdb", "LevelDB", "LMDB", "lmdb ", "unknown", ""}
DatasetTypes ==
  {"DataParameter_DB_LEVELDB", "DataParameter_DB_LMDB", "DataParameter_DB(2)",
   "DataParameter_DB(-1)"}

InitDataset ==
  /\ build \in {b \in Builds : ~b.cudnn}
  /\ pc = "dataset"
  /\ registry = [P \in Precisions |-> EmptyMap]
  /\ regLog = {}
  /\ localStatics = {}
  /\ tuDone = {}
  /\ userRegs = 0
  /\ lastOp = NoOp
  /\ \E kv \in DatasetInstantiations, n \in DatasetNames, t \in DatasetTypes :
       ds = [kv |-> kv, name |-> n, dbtype |-> t,
             byName |-> DsPending, byType |-> DsPending]

\* DatasetFactory<K, V>(ds.name) is called.
CallDatasetFactoryByName ==
  /\ pc = "dataset"
  /\ ds.byName.status = "pending"
  /\ LET r == DatasetFactoryByName(ds.kv, ds.name, build.msc)
     IN  /\ ds' = [ds EXCEPT !.byName = r]
         /\ pc' = IF r.status = "fatal" THEN "aborted" ELSE pc
  /\ UNCHANGED <<build, registry, regLog, localStatics, tuDone, userRegs, lastOp>>

\* DatasetFactory<K, V>(ds.dbtype) is called.
CallDatasetFactoryByType ==
  /\ pc = "dataset"
  /\ ds.byType.status = "pending"
  /\ LET r == DatasetFactoryByType(ds.kv, ds.dbtype, build.msc)
     IN  /\ ds' = [ds EXCEPT !.byType = r]
         /\ pc' = IF r.status = "fatal" THEN "aborted" ELSE pc
  /\ UNCHANGED <<build, registry, regLog, localStatics, tuDone, userRegs, lastOp>>

NextDataset == CallDatasetFactoryByName \/ CallDatasetFactoryByType

SpecDataset == InitDataset /\ [][NextDataset]_vars

(***************************************************************************)
(* Claims about the registry (Spec).                                       *)
(***************************************************************************)
Creates == {"CreateLayer", "GetLayer"}

\* Every action records its call in lastOp, so a step is recognised by the call
\* it records and the place it starts from.
AddCreatorStep == pc = "main" /\ lastOp'.op = "AddCreator"
StaticClientStep == pc = "static_init" /\ lastOp'.op = "StaticInitClient"
CreateStep == pc = "main" /\ lastOp'.op \in Creates
InitLayerFactoryStep ==
  pc = "main" /\ lastOp'.op \in {"InitLayerFactory", "InitLayerFactoryAgain"}

\* The six types layer_factory.cpp registers, and the 36 InitLayerFactory lists.
SixTypes == {"CONVOLUTION", "POOLING", "RELU", "SIGMOID", "SOFTMAX", "TANH"}
ListedTypes ==
  {EngineCreatorTable[i][1] : i \in DOMAIN EngineCreatorTable}
  \cup {ClassTable[i][1] : i \in DOMAIN ClassTable}

\* The map m with exactly (t, c) added and nothing else changed.
InsertedOnly(m, n, t, c) ==
  /\ DOMAIN n = DOMAIN m \cup {t}
  /\ n[t] = c
  /\ \A u \in DOMAIN m : u # t => n[u] = m[u]

\* C1: AddCreator(type, creator) on a type already in that precision's registry
\* aborts the process and leaves every stored creator as it was; on an absent
\* type it inserts exactly (type, creator) and changes no other entry.  The same
\* holds of a registerer object constructed by a REGISTER_ macro.
C1_AddCreator ==
  [][/\ AddCreatorStep =>
          LET P == lastOp'.prec
              t == lastOp'.type
              c == lastOp'.creator
          IN  IF t \in DOMAIN registry[P]
              THEN pc' = "aborted" /\ registry' = registry /\ lastOp'.status = "fatal"
              ELSE /\ pc' = pc
                   /\ InsertedOnly(registry[P], registry'[P], t, c)
                   /\ \A Q \in Precisions \ {P} : registry'[Q] = registry[Q]
     /\ (StaticClientStep /\ ~build.msc) =>
          LET t == lastOp'.type
              c == lastOp'.creator
          IN  IF \E P \in Precisions : t \in DOMAIN registry[P]
              THEN /\ pc' = "aborted"
                   /\ \A P \in Precisions : \A u \in DOMAIN registry[P] :
                        u \in DOMAIN registry'[P] /\ registry'[P][u] = registry[P][u]
              ELSE /\ pc' = pc
                   /\ \A P \in Precisions :
                        InsertedOnly(registry[P], registry'[P], t, c)
    ]_vars

\* C1 witness: a duplicate AddCreator aborted, and the creator stored is still the
\* earlier one, not the one the call brought.
C1_Witness ==
  /\ lastOp.op = "AddCreator"
  /\ lastOp.status = "fatal"
  /\ pc = "aborted"
  /\ lastOp.type \in DOMAIN registry[lastOp.prec]
  /\ registry[lastOp.prec][lastOp.type] # lastOp.creator

\* C2: CreateLayer (and GetLayer) on a type that is not registered in that
\* precision aborts the process: no creator is invoked and no layer, null or
\* otherwise, is returned.
C2_Unregistered ==
  [][(CreateStep /\ lastOp'.param.type \notin DOMAIN registry[lastOp'.prec]) =>
         /\ pc' = "aborted"
         /\ lastOp'.status = "fatal"
         /\ lastOp'.invoked = NoCreator
         /\ lastOp'.layer = NoLayer
         /\ lastOp'.log[Len(lastOp'.log)][1] = "FATAL"
    ]_vars

\* C2 witness: a CreateLayer on an unregistered type has aborted the process.
C2_Witness ==
  /\ lastOp.op = "CreateLayer"
  /\ lastOp.type \notin DOMAIN registry[lastOp.prec]
  /\ lastOp.status = "fatal"
  /\ lastOp.invoked = NoCreator
  /\ pc = "aborted"

\* The registrations of type t in precision P that returned.
RegistrationsOf(P, t) == {r \in regLog : r.prec = P /\ r.type = t}

C3_Lookup ==
  lastOp.op \in Creates =>
    LET regs == RegistrationsOf(lastOp.prec, lastOp.type)
    IN  /\ Cardinality(regs) = 1 =>
             \E r \in regs :
               LET res == CallCreator(r.creator, lastOp.prec, lastOp.param,
                                      build.cudnn)
               IN  /\ lastOp.invoked = r.creator
                   /\ lastOp.status = res.status
                   /\ lastOp.layer = res.layer
                   /\ lastOp.status = "ok" =>
                        /\ lastOp.layer.param = lastOp.param
                        /\ lastOp.layer.dtype = lastOp.prec
        /\ regs = {} => lastOp.status = "fatal" /\ lastOp.invoked = NoCreator

C3_Independent ==
  AddCreatorStep =>
    \A Q \in Precisions \ {lastOp'.prec} : registry'[Q] = registry[Q]

\* C3: a CreateLayer on a type registered exactly once in its precision invokes
\* the creator registered for it there, with the same parameter, and returns its
\* result; a registration in one precision changes nothing in the other's
\* registry and satisfies no lookup there.
C3_RegisteredOnce == [](C3_Lookup) /\ [][C3_Independent]_vars

\* C3 witness: AWESOME is registered for double only, and CreateLayer<double>
\* returned the layer of the creator registered for it.
C3_Witness ==
  /\ lastOp.op = "CreateLayer"
  /\ lastOp.prec = "double"
  /\ lastOp.type = "AWESOME"
  /\ lastOp.status = "ok"
  /\ lastOp.invoked = FnCreator("GetPoolingLayer")
  /\ "AWESOME" \notin DOMAIN registry["float"]

AllSixRegistered ==
  \A P \in Precisions : \A i \in DOMAIN EngineCreatorTable :
    /\ EngineCreatorTable[i][1] \in DOMAIN registry[P]
    /\ registry[P][EngineCreatorTable[i][1]] = FnCreator(EngineCreatorTable[i][2])

ReachedUnregisteredPath ==
  /\ lastOp.op \in Creates
  /\ lastOp.type \in SixTypes
  /\ lastOp.status = "fatal"
  /\ lastOp.invoked = NoCreator

InitLayerFactoryReturned == localStatics # {} /\ pc # "static_init"

C9_AtMostOne ==
  /\ \A P \in Precisions : \A t \in DOMAIN registry[P] :
       /\ Cardinality(RegistrationsOf(P, t)) = 1
       /\ \A r \in RegistrationsOf(P, t) : r.creator = registry[P][t]
  /\ \A r \in regLog : r.type \in DOMAIN registry[r.prec]

C9_Step ==
  /\ \A P \in Precisions : \A t \in DOMAIN registry[P] :
       t \in DOMAIN registry'[P] /\ registry'[P][t] = registry[P][t]
  /\ CreateStep =>
       registry' = registry /\ regLog' = regLog /\ localStatics' = localStatics

InitRegisteredAll ==
  /\ pc' = "main"
  /\ lastOp'.status = "ok"
  /\ lastOp'.ret = TRUE
  /\ Cardinality(ListedTypes) = 36
  /\ \A P \in Precisions :
       /\ DOMAIN registry'[P] = DOMAIN registry[P] \cup ListedTypes
       /\ \A u \in DOMAIN registry[P] : registry'[P][u] = registry[P][u]
       /\ \A t \in ListedTypes : Cardinality(RegistrationsOf(P, t)') = 1
  /\ Cardinality(regLog' \ regLog) = 72

InitAgainNoOp ==
  /\ pc' = "main"
  /\ lastOp'.status = "ok"
  /\ lastOp'.ret = TRUE
  /\ registry' = registry
  /\ regLog' = regLog
  /\ localStatics' = localStatics

\* C10 as stated: in the _MSC_VER build the first InitLayerFactory() registers
\* the 36 listed types once per precision and does not abort; a later call
\* registers nothing, does not abort, changes no registry and returns true.
C10_Original ==
  [][InitLayerFactoryStep =>
       IF localStatics = {} THEN InitRegisteredAll ELSE InitAgainNoOp]_vars

NoneListedRegistered ==
  \A P \in Precisions : DOMAIN registry[P] \cap ListedTypes = {}

\* C10 as amended: the same, for a first call made while none of the listed
\* types is registered in either precision; a first call made after other code
\* registered a listed type aborts on the duplicate-registration check.
C10_Amended ==
  [][InitLayerFactoryStep =>
       IF localStatics = {}
       THEN IF NoneListedRegistered THEN InitRegisteredAll
            ELSE pc' = "aborted" /\ lastOp'.status = "fatal"
       ELSE InitAgainNoOp]_vars

\* C10 witness: a second InitLayerFactory() returned true, with the 36 types in
\* both registries.
C10_Witness ==
  /\ lastOp.op = "InitLayerFactoryAgain"
  /\ lastOp.ret = TRUE
  /\ pc = "main"
  /\ \A P \in Precisions : ListedTypes \subseteq DOMAIN registry[P]

(***************************************************************************)
(* Claims about the engine-selecting creators (SpecEngine).                *)
(***************************************************************************)
\* What each creator is expected to read and to build.
FamilyOf(creator) ==
  CASE creator.name = "GetConvolutionLayer" ->
         [field |-> "convolution_param", baseline |-> "ConvolutionLayer",
          accelerated |-> "CuDNNConvolutionLayer"]
    [] creator.name = "GetPoolingLayer" ->
         [field |-> "pooling_param", baseline |-> "PoolingLayer",
          accelerated |-> "CuDNNPoolingLayer"]
    [] creator.name = "GetReLULayer" ->
         [field |-> "relu_param", baseline |-> "ReLULayer",
          accelerated |-> "CuDNNReLULayer"]
    [] creator.name = "GetSigmoidLayer" ->
         [field |-> "sigmoid_param", baseline |-> "SigmoidLayer",
          accelerated |-> "CuDNNSigmoidLayer"]
    [] creator.name = "GetSoftmaxLayer" ->
         [field |-> "softmax_param", baseline |-> "SoftmaxLayer",
          accelerated |-> "CuDNNSoftmaxLayer"]
    [] creator.name = "GetTanHLayer" ->
         [field |-> "tanh_param", baseline |-> "TanHLayer",
          accelerated |-> "CuDNNTanHLayer"]

\* The engine the call's message declares for the creator called.
Declared == lastOp.param.engines[FamilyOf(lastOp.creator).field]

\* The message asks for padding or for more than one top.
PaddingOrTops(p) == p.pad # 0 \/ p.pad_h # 0 \/ p.pad_w # 0 \/ p.top_size > 1

\* The pooling compatibility exception applies to the call.
PoolingException ==
  lastOp.creator.name = "GetPoolingLayer" /\ PaddingOrTops(lastOp.param)

\* What a finished call produced: "baseline", "accelerated", or how it ended.
OutcomeOf(creator, status, layer) ==
  IF status # "ok" THEN status
  ELSE IF layer.class = FamilyOf(creator).baseline THEN "baseline"
  ELSE IF layer.class = FamilyOf(creator).accelerated THEN "accelerated"
  ELSE "other"

Outcome == OutcomeOf(lastOp.creator, lastOp.status, lastOp.layer)

\* What the same call produces in the build with the other USE_CUDNN setting.
OtherBuild ==
  CallCreator(lastOp.creator, lastOp.prec, lastOp.param, ~build.cudnn)

SameInOtherBuild ==
  /\ OtherBuild.status = lastOp.status
  /\ OtherBuild.layer = lastOp.layer
  /\ OtherBuild.log = lastOp.log

\* The result as a function of the declared engine, USE_CUDNN and the exception.
Resolution(engine, USE_CUDNN, exception) ==
  CASE engine = "CAFFE" -> "baseline"
    [] engine = "DEFAULT" ->
         IF USE_CUDNN /\ ~exception THEN "accelerated" ELSE "baseline"
    [] engine = "CUDNN" ->
         IF ~USE_CUDNN THEN "fatal"
         ELSE IF exception THEN "baseline" ELSE "accelerated"
    [] OTHER -> "fatal"

C4_DefaultAndCaffe ==
  /\ (Declared = "DEFAULT" /\ ~build.cudnn) => Outcome = "baseline"
  /\ (Declared = "DEFAULT" /\ build.cudnn) =>
       Outcome = IF PoolingException THEN "baseline" ELSE "accelerated"
  /\ Declared = "CAFFE" => Outcome = "baseline"
  /\ Outcome = Resolution(Declared, build.cudnn, PoolingException)
  /\ lastOp.status = "ok" =>
       lastOp.layer.dtype = lastOp.prec /\ lastOp.layer.param = lastOp.param

\* C4 as stated: USE_CUDNN influences the result of the six creators only when
\* the declared engine is DEFAULT (DEFAULT gives the baseline layer without
\* USE_CUDNN and the CuDNN layer with it, but for the pooling exception; CAFFE
\* gives the baseline layer in both builds), and the result is a function of the
\* engine, the build flag and the exception alone.
C4_Original ==
  lastOp.op = "creator" =>
    /\ C4_DefaultAndCaffe
    /\ Declared # "DEFAULT" => SameInOtherBuild

\* C4 as amended: USE_CUDNN influences the result only when the declared engine
\* is DEFAULT or CUDNN; the rest as stated.  (An explicit CUDNN gives the CuDNN
\* layer with USE_CUDNN, but for the pooling exception, and aborts without it.)
C4_Amended ==
  lastOp.op = "creator" =>
    /\ C4_DefaultAndCaffe
    /\ Declared \notin {"DEFAULT", "CUDNN"} => SameInOtherBuild

\* C4 witness: GetReLULayer on engine DEFAULT in a USE_CUDNN build returned the
\* CuDNN layer.
C4_Witness ==
  /\ lastOp.op = "creator"
  /\ lastOp.creator = FnCreator("GetReLULayer")
  /\ lastOp.param.engines["relu_param"] = "DEFAULT"
  /\ build.cudnn
  /\ lastOp.layer.class = "CuDNNReLULayer"

\* The message with no padding and one top.
Plain(p) == [p EXCEPT !.pad = 0, !.pad_h = 0, !.pad_w = 0, !.top_size = 1]

C5_Accelerated ==
  (lastOp.creator.name = "GetPoolingLayer" /\ ~PaddingOrTops(lastOp.param)
     /\ build.cudnn /\ Declared \in {"DEFAULT", "CUDNN"}) =>
    lastOp.status = "ok" /\ lastOp.layer.class = "CuDNNPoolingLayer"

C5_OthersIgnore ==
  lastOp.creator.name # "GetPoolingLayer" =>
    LET plain == CallCreator(lastOp.creator, lastOp.prec, Plain(lastOp.param),
                             build.cudnn)
    IN  /\ plain.status = lastOp.status
        /\ plain.layer.class = lastOp.layer.class
        /\ plain.log = lastOp.log

\* The downgrade is reported by one informational line, and nothing fatal.
DowngradeLogged ==
  IF build.cudnn /\ Declared \in {"DEFAULT", "CUDNN"}
  THEN Len(lastOp.log) = 1 /\ lastOp.log[1][1] = "INFO"
  ELSE lastOp.log = <<>>

\* C5 as stated: GetPoolingLayer on a message with padding or more than one top
\* returns the baseline PoolingLayer whatever the engine asked for (DEFAULT,
\* CAFFE or CUDNN), with an informational diagnostic when it downgrades; without
\* padding and extra tops, an engine resolving to CUDNN in a USE_CUDNN build
\* gives CuDNNPoolingLayer; the other five creators ignore padding and tops.
C5_Original ==
  lastOp.op = "creator" =>
    /\ (PoolingException /\ Declared \in {"DEFAULT", "CAFFE", "CUDNN"}) =>
         /\ lastOp.status = "ok"
         /\ lastOp.layer.class = "PoolingLayer"
         /\ DowngradeLogged
    /\ C5_Accelerated
    /\ C5_OthersIgnore

\* C5 as amended: the same, except that an explicit engine CUDNN in a build
\* without USE_CUDNN is not downgraded (it aborts, padding or not): the baseline
\* PoolingLayer is returned for DEFAULT and CAFFE in both builds and for CUDNN
\* in a USE_CUDNN build.
C5_Amended ==
  lastOp.op = "creator" =>
    /\ (PoolingException /\ Declared \in {"DEFAULT", "CAFFE", "CUDNN"}
          /\ (build.cudnn \/ Declared # "CUDNN")) =>
         /\ lastOp.status = "ok"
         /\ lastOp.layer.class = "PoolingLayer"
         /\ DowngradeLogged
    /\ C5_Accelerated
    /\ C5_OthersIgnore

\* C5 witness: engine CUDNN with pad_h set, in a USE_CUDNN build, gave the
\* baseline PoolingLayer and one informational line.
C5_Witness ==
  /\ lastOp.op = "creator"
  /\ lastOp.creator = FnCreator("GetPoolingLayer")
  /\ lastOp.param.engines["pooling_param"] = "CUDNN"
  /\ lastOp.param.pad = 0 /\ lastOp.param.pad_h # 0 /\ lastOp.param.top_size = 1
  /\ build.cudnn
  /\ lastOp.layer.class = "PoolingLayer"
  /\ Len(lastOp.log) = 1

\* C6: for each of the six creators an engine that resolves to neither CAFFE nor
\* an available CUDNN (CUDNN without USE_CUDNN, or an unrecognised value) is
\* fatal: the creator logs "Layer <name> has unknown engine." and the process
\* aborts; no creator ever returns without a layer of its family.
C6_UnknownEngine ==
  lastOp.op = "creator" =>
    /\ ((Declared = "CUDNN" /\ ~build.cudnn)
          \/ Declared \notin {"DEFAULT", "CAFFE", "CUDNN"}) =>
         /\ lastOp.status = "fatal"
         /\ pc = "aborted"
         /\ lastOp.layer = NoLayer
         /\ lastOp.log =
              << <<"FATAL", "Layer ", lastOp.param.name, " has unknown engine.">> >>
    /\ lastOp.status = "ok" =>
         /\ lastOp.layer # NoLayer
         /\ Outcome \in {"baseline", "accelerated"}
    /\ lastOp.status \in {"ok", "fatal"}

\* C6 witness: GetTanHLayer on an explicit CUDNN without USE_CUDNN aborted.
C6_Witness ==
  /\ lastOp.op = "creator"
  /\ lastOp.creator = FnCreator("GetTanHLayer")
  /\ lastOp.param.engines["tanh_param"] = "CUDNN"
  /\ ~build.cudnn
  /\ lastOp.status = "fatal"
  /\ pc = "aborted"

(***************************************************************************)
(* Claims about the dataset factory (SpecDataset).                         *)
(***************************************************************************)
ByNameDone == ds.byName.status \in {"ok", "fatal"}
ByTypeDone == ds.byType.status \in {"ok", "fatal"}

\* The enumerator a string names, if any.
AliasOf(name) ==
  CASE name = "leveldb" -> "DataParameter_DB_LEVELDB"
    [] name = "lmdb" -> "DataParameter_DB_LMDB"
    [] OTHER -> "NONE"

\* What each input is expected to give in the build.
ExpectedClass(dbtype) ==
  CASE dbtype = "DataParameter_DB_LEVELDB" -> "LeveldbDataset"
    [] dbtype = "DataParameter_DB_LMDB" ->
         IF build.msc THEN "NULL" ELSE "LmdbDataset"
    [] OTHER -> "NONE"

ExpectedOf(result, dbtype, value) ==
  IF dbtype \in {"DataParameter_DB_LEVELDB", "DataParameter_DB_LMDB"}
  THEN /\ result.status = "ok"
       /\ result.class = ExpectedClass(dbtype)
       /\ result.kv = ds.kv
       /\ result.log = <<>>
  ELSE /\ result.status = "fatal"
       /\ result.class = "NONE"
       /\ result.log = <<"FATAL", "Unknown dataset type ", value>>
       /\ pc = "aborted"

\* C7: the two DatasetFactory overloads agree in every build: "leveldb" and
\* LEVELDB give a LevelDB adapter; "lmdb" and LMDB give an LMDB adapter, or with
\* _MSC_VER a null pointer and no abort; any other string (the match is exact)
\* or enumerator value is fatal with "Unknown dataset type <value>".
C7_DatasetFactory ==
  /\ ByNameDone => ExpectedOf(ds.byName, AliasOf(ds.name), ds.name)
  /\ ByTypeDone => ExpectedOf(ds.byType, ds.dbtype, ds.dbtype)
  /\ (ByNameDone /\ ByTypeDone /\ AliasOf(ds.name) = ds.dbtype) =>
       ds.byName = ds.byType

\* C7 witness: with _MSC_VER, both "lmdb" and LMDB returned a null pointer and
\* the process goes on.
C7_Witness ==
  /\ build.msc
  /\ ds.name = "lmdb"
  /\ ds.dbtype = "DataParameter_DB_LMDB"
  /\ ds.byName.status = "ok" /\ ds.byName.class = "NULL"
  /\ ds.byType.status = "ok" /\ ds.byType.class = "NULL"
  /\ pc = "dataset"

====
